---- MODULE Spec2Model ----
(***************************************************************************)
(* Model of the natural-language-to-SQL query agent                        *)
(* (src/skills/query-agent/scripts/query_agent.py): the SQL safety         *)
(* validator, the query executor, the result summarizer and the            *)
(* orchestrating query() pipeline.                                         *)
(*                                                                         *)
(* Text is modelled as a sequence of one-character strings, so that        *)
(* upper-casing, trimming, substring search and appending are computed,    *)
(* not assumed.                                                            *)
(***************************************************************************)
EXTENDS Integers, Sequences, FiniteSets, TLC

\* ------------------------------------------------------------------------
\* Bounds of the model
\* ------------------------------------------------------------------------
\* SQL texts are concatenations of at most MaxTokens tokens of SqlTokens.
MaxTokens == 2
\* max_rows arguments of execute_query range over 0..MaxRowsArg.
MaxRowsArg == 2
\* The backend's fetchall returns between 0 and MaxFetched rows.
MaxFetched == 3
\* Language-model replies are sequences of at most MaxReplyLen reply tokens.
MaxReplyLen == 3
\* Longest column list and most rows of a result handed to results_to_xml.
MaxCols == 2
MaxXmlRows == 2
\* Last tick of the wall clock, and the ticks the clock makes per second.
MaxClock == 3
SubSecondTicks == 2

\* ------------------------------------------------------------------------
\* Text helpers (Python str methods)
\* ------------------------------------------------------------------------
LowerLetters ==
  <<"a","b","c","d","e","f","g","h","i","j","k","l","m",
    "n","o","p","q","r","s","t","u","v","w","x","y","z">>

UpperLetters ==
  <<"A","B","C","D","E","F","G","H","I","J","K","L","M",
    "N","O","P","Q","R","S","T","U","V","W","X","Y","Z">>

\* The upper-case letter of each lower-case letter.
UpperOf ==
  [c \in {LowerLetters[i] : i \in 1..26} |->
     UpperLetters[CHOOSE i \in 1..26 : LowerLetters[i] = c]]

\* str.upper() on one character.
UpperChar(c) == IF c \in DOMAIN UpperOf THEN UpperOf[c] ELSE c

\* str.upper()
Upper(s) == [i \in 1..Len(s) |-> UpperChar(s[i])]

Whitespace == {" ", "\t", "\n"}

\* str.lstrip()
RECURSIVE LStrip(_)
LStrip(s) ==
  IF s # <<>> /\ Head(s) \in Whitespace THEN LStrip(Tail(s)) ELSE s

\* str.rstrip(chars): drop every trailing character that is in chars.
RECURSIVE RStripChars(_, _)
RStripChars(s, chars) ==
  IF s # <<>> /\ s[Len(s)] \in chars
  THEN RStripChars(SubSeq(s, 1, Len(s) - 1), chars)
  ELSE s

\* str.strip()
Strip(s) == RStripChars(LStrip(s), Whitespace)

\* str.startswith(prefix)
StartsWith(s, prefix) ==
  /\ Len(s) >= Len(prefix)
  /\ SubSeq(s, 1, Len(prefix)) = prefix

\* Python's `sub in s` on strings.
Contains(s, sub) ==
  \E i \in 1..(Len(s) - Len(sub) + 1) : SubSeq(s, i, i + Len(sub) - 1) = sub

\* ------------------------------------------------------------------------
\* SQL validation
\* ------------------------------------------------------------------------
kwSELECT == <<"S","E","L","E","C","T">>
kwLIMIT  == <<"L","I","M","I","T">>

\* The denylist, in list order.
DISALLOWED_KEYWORDS ==
  << <<"I","N","S","E","R","T">>,
     <<"U","P","D","A","T","E">>,
     <<"D","E","L","E","T","E">>,
     <<"D","R","O","P">>,
     <<"C","R","E","A","T","E">>,
     <<"A","L","T","E","R">>,
     <<"T","R","U","N","C","A","T","E">>,
     <<"G","R","A","N","T">>,
     <<"R","E","V","O","K","E">>,
     <<"E","X","E","C">>,
     <<"E","X","E","C","U","T","E">>,
     <<"S","P","_">>,
     <<"X","P","_">>,
     <<"S","C","R","I","P","T">> >>

\* The three kinds of entry of the errors list.
ErrDisallowed(keyword) == <<"Disallowed keyword: ", keyword>>
ErrNotSelect == <<"Query must start with SELECT">>
ErrNoLimit   == <<"Query should include LIMIT clause">>

\* The loop over DISALLOWED_KEYWORDS: one entry per keyword found, in order.
RECURSIVE KeywordErrors(_, _)
KeywordErrors(sql_upper, i) ==
  IF i > Len(DISALLOWED_KEYWORDS) THEN <<>>
  ELSE (IF Contains(sql_upper, DISALLOWED_KEYWORDS[i])
        THEN <<ErrDisallowed(DISALLOWED_KEYWORDS[i])>> ELSE <<>>)
       \o KeywordErrors(sql_upper, i + 1)

\* Variant: looks for SELECT anywhere instead of at the start.
NotSelect_Anywhere(sql) == ~Contains(Upper(sql), kwSELECT)

\* The test of the "Must start with SELECT" check.
NotSelect(sql) == ~StartsWith(Upper(Strip(sql)), kwSELECT)

\* Variant: the LIMIT check never fires.
NoLimit_Never(sql) == FALSE

\* The test of the "Check for LIMIT" check (also the executor's test).
NoLimit(sql) == ~Contains(Upper(sql), kwLIMIT)

\* Variant: the keyword search runs on the text as given, not upper-cased.
validate_sql_CaseSensitive(sql, schema) ==
  LET errors == KeywordErrors(sql, 1)
                \o (IF NotSelect(sql) THEN <<ErrNotSelect>> ELSE <<>>)
                \o (IF NoLimit(sql) THEN <<ErrNoLimit>> ELSE <<>>)
  IN [valid |-> Len(errors) = 0, errors |-> errors]

\* Variant: a schema without tables is a violation of its own.
validate_sql_SchemaChecked(sql, schema) ==
  LET table_names == schema.tables
      errors == KeywordErrors(Upper(sql), 1)
                \o (IF NotSelect(sql) THEN <<ErrNotSelect>> ELSE <<>>)
                \o (IF NoLimit(sql) THEN <<ErrNoLimit>> ELSE <<>>)
                \o (IF table_names = <<>> THEN <<ErrNotSelect>> ELSE <<>>)
  IN [valid |-> Len(errors) = 0, errors |-> errors]

\* Variant: the checks stop at the first violation.
validate_sql_ShortCircuit(sql, schema) ==
  LET all == KeywordErrors(Upper(sql), 1)
             \o (IF NotSelect(sql) THEN <<ErrNotSelect>> ELSE <<>>)
             \o (IF NoLimit(sql) THEN <<ErrNoLimit>> ELSE <<>>)
      errors == IF all = <<>> THEN <<>> ELSE <<Head(all)>>
  IN [valid |-> Len(errors) = 0, errors |-> errors]

\* Variant: valid tells only whether the text is a SELECT.
validate_sql_ValidIfSelect(sql, schema) ==
  LET errors == KeywordErrors(Upper(sql), 1)
                \o (IF NotSelect(sql) THEN <<ErrNotSelect>> ELSE <<>>)
                \o (IF NoLimit(sql) THEN <<ErrNoLimit>> ELSE <<>>)
  IN [valid |-> ~NotSelect(sql), errors |-> errors]

\* validate_sql(sql, schema): the table names of the schema are read into
\* table_names, which is never used.
validate_sql(sql, schema) ==
  LET errors == KeywordErrors(Upper(sql), 1)
                \o (IF NotSelect(sql) THEN <<ErrNotSelect>> ELSE <<>>)
                \o (IF NoLimit(sql) THEN <<ErrNoLimit>> ELSE <<>>)
      table_names == schema.tables
  IN [valid |-> Len(errors) = 0, errors |-> errors]

\* ------------------------------------------------------------------------
\* Query execution
\* ------------------------------------------------------------------------
\* Default of the max_rows parameter (the value query() runs with).
DEFAULT_MAX_ROWS == 10000

Digit(d) == <<"0","1","2","3","4","5","6","7","8","9">>[d + 1]

\* str(n) of a non-negative integer, as f"{max_rows}" renders it.
RECURSIVE IntToStr(_)
IntToStr(n) ==
  IF n < 10 THEN <<Digit(n)>> ELSE IntToStr(n \div 10) \o <<Digit(n % 10)>>

\* Variant: the limiting clause is appended to every statement.
AddLimit_Always(sql, maxRows) ==
  RStripChars(sql, {";"}) \o <<" ">> \o kwLIMIT \o <<" ">> \o IntToStr(maxRows)

\* "Add LIMIT if not present": the statement handed to cursor.execute.
AddLimit(sql, maxRows) ==
  IF NoLimit(sql)
  THEN RStripChars(sql, {";"}) \o <<" ">> \o kwLIMIT \o <<" ">> \o IntToStr(maxRows)
  ELSE sql

\* Variant: no truncation.
SliceTo_All(rows, maxRows) == rows

\* rows[:max_rows] for max_rows >= 0.
SliceTo(rows, maxRows) ==
  SubSeq(rows, 1, IF maxRows < Len(rows) THEN maxRows ELSE Len(rows))

\* What the database does in one call: whether connecting succeeds, whether
\* cursor.execute succeeds, and how many rows fetchall returns (the backend
\* is free to return more rows than any LIMIT in the statement).
Backends ==
  [connect : {"ok", "error"}, execute : {"ok", "error"}, fetched : 0..MaxFetched]

\* The tuples fetchall returns: one value each, naming the tuple's position.
FetchAll(be) == [i \in 1..be.fetched |-> <<Digit(i)>>]

\* [desc[0] for desc in cursor.description]: the statements of the model
\* select the one column a.
Description == <<<<"a">>>>

\* dict(zip(columns, row)): the value at the last position of each name, over
\* the positions both lists have.
ZipDict(columns, row) ==
  LET n == IF Len(columns) < Len(row) THEN Len(columns) ELSE Len(row)
      last(c) == CHOOSE j \in 1..n :
                   columns[j] = c /\ \A k \in (j + 1)..n : columns[k] # c
  IN [c \in {columns[j] : j \in 1..n} |-> row[last(c)]]

\* Variant: the connection is closed only when the statement succeeded.
execute_query_LeakOnError(sql, maxRows, be) ==
  IF be.connect = "error"
  THEN [raised |-> TRUE, exc |-> "ConnectError", sent |-> <<>>,
        opened |-> 0, closed |-> 0, columns |-> <<>>,
        rows |-> <<>>, row_count |-> 0]
  ELSE IF be.execute = "error"
  THEN [raised |-> TRUE, exc |-> "DatabaseError", sent |-> <<AddLimit(sql, maxRows)>>,
        opened |-> 1, closed |-> 0, columns |-> <<>>,
        rows |-> <<>>, row_count |-> 0]
  ELSE LET result_rows == SliceTo(FetchAll(be), maxRows)
       IN [raised |-> FALSE, exc |-> "", sent |-> <<AddLimit(sql, maxRows)>>,
           opened |-> 1, closed |-> 1, columns |-> Description,
           rows |-> [i \in 1..Len(result_rows) |-> ZipDict(Description, result_rows[i])],
           row_count |-> Len(result_rows)]

\* Variant: a statement the database rejected is sent a second time.
execute_query_Retry(sql, maxRows, be) ==
  IF be.connect = "error"
  THEN [raised |-> TRUE, exc |-> "ConnectError", sent |-> <<>>,
        opened |-> 0, closed |-> 0, columns |-> <<>>,
        rows |-> <<>>, row_count |-> 0]
  ELSE IF be.execute = "error"
  THEN [raised |-> TRUE, exc |-> "DatabaseError",
        sent |-> <<AddLimit(sql, maxRows), AddLimit(sql, maxRows)>>,
        opened |-> 1, closed |-> 1, columns |-> <<>>,
        rows |-> <<>>, row_count |-> 0]
  ELSE LET result_rows == SliceTo(FetchAll(be), maxRows)
       IN [raised |-> FALSE, exc |-> "", sent |-> <<AddLimit(sql, maxRows)>>,
           opened |-> 1, closed |-> 1, columns |-> Description,
           rows |-> [i \in 1..Len(result_rows) |-> ZipDict(Description, result_rows[i])],
           row_count |-> Len(result_rows)]

\* execute_query(sql, database, max_rows) against backend behaviour be.
\*   sent    the statements handed to cursor.execute, in order
\*   opened  connections opened, closed  connections closed
\*   raised  TRUE when the call ends in an exception
execute_query(sql, maxRows, be) ==
  IF be.connect = "error"
  THEN [raised |-> TRUE, exc |-> "ConnectError", sent |-> <<>>,
        opened |-> 0, closed |-> 0, columns |-> <<>>,
        rows |-> <<>>, row_count |-> 0]
  ELSE IF be.execute = "error"
  THEN [raised |-> TRUE, exc |-> "DatabaseError", sent |-> <<AddLimit(sql, maxRows)>>,
        opened |-> 1, closed |-> 1, columns |-> <<>>,
        rows |-> <<>>, row_count |-> 0]
  ELSE LET result_rows == SliceTo(FetchAll(be), maxRows)
       IN [raised |-> FALSE, exc |-> "", sent |-> <<AddLimit(sql, maxRows)>>,
           opened |-> 1, closed |-> 1, columns |-> Description,
           rows |-> [i \in 1..Len(result_rows) |-> ZipDict(Description, result_rows[i])],
           row_count |-> Len(result_rows)]

\* ------------------------------------------------------------------------
\* Language-model replies and their parsing
\* ------------------------------------------------------------------------
\* A reply text is a sequence of reply tokens: an opening brace, a closing
\* brace, prose (text that is no JSON and holds no brace), a complete JSON
\* value that is not an object (a number, a string, a list, null), and
\* object members `"key": value` (with their separating commas).
LB     == [t |-> "{", key |-> "", val |-> ""]
RB     == [t |-> "}", key |-> "", val |-> ""]
TXT    == [t |-> "prose", key |-> "", val |-> ""]
SCALAR == [t |-> "scalar", key |-> "", val |-> ""]
Member(k, v) == [t |-> "member", key |-> k, val |-> v]

ReplyTokens ==
  { LB, RB, TXT, SCALAR,
    Member("sql", "text"), Member("sql", "null"), Member("error", "text"),
    Member("summary", "text"), Member("key_findings", "list") }

RECURSIVE RepliesOfLen(_)
RepliesOfLen(n) ==
  IF n = 0 THEN {<<>>}
  ELSE {r \o <<tok>> : r \in RepliesOfLen(n - 1), tok \in ReplyTokens}

\* Every reply text the model lets the endpoint return.
Replies == UNION {RepliesOfLen(n) : n \in 0..MaxReplyLen}

\* Replies that are an object of two members, such as one carrying both a
\* sql and an error.
TwoMemberReplies ==
  {<<LB, a, b, RB>> : a \in {tok \in ReplyTokens : tok.t = "member"},
                      b \in {tok \in ReplyTokens : tok.t = "member"}}

\* A text json.loads accepts as an object: braces around members only.
IsJsonObject(c) ==
  /\ Len(c) >= 2
  /\ c[1] = LB
  /\ c[Len(c)] = RB
  /\ \A i \in 2..(Len(c) - 1) : c[i].t = "member"

\* A text json.loads accepts at all.
IsJson(c) == IsJsonObject(c) \/ c = <<SCALAR>>

\* dict.get(key) of the object json.loads builds from c: the value of the
\* last member with that key, "absent" when there is none.
RECURSIVE DictGet(_, _)
DictGet(c, k) ==
  IF c = <<>> THEN "absent"
  ELSE IF c[Len(c)].t = "member" /\ c[Len(c)].key = k THEN c[Len(c)].val
  ELSE DictGet(SubSeq(c, 1, Len(c) - 1), k)

\* re.search(r'\{.*\}', content, re.DOTALL): greedy, so the match runs from
\* the first opening brace to the last closing brace after it.
HasBraceMatch(c) ==
  \E i \in 1..Len(c) : \E j \in (i + 1)..Len(c) : c[i] = LB /\ c[j] = RB

BraceMatch(c) ==
  LET first == CHOOSE i \in 1..Len(c) :
                 c[i] = LB /\ \A k \in 1..(i - 1) : c[k] # LB
      last  == CHOOSE j \in 1..Len(c) :
                 c[j] = RB /\ \A k \in (j + 1)..Len(c) : c[k] # RB
  IN SubSeq(c, first, last)

\* The try/except around json.loads shared by generate_sql and
\* summarize_results, up to the point where they differ (no brace match).
\*   "value"    json.loads gave a value: text is what was parsed
\*   "raise"    json.loads of the brace match raised inside the handler
\*   "nomatch"  the regular expression found nothing
ExtractJson(c) ==
  IF IsJson(c) THEN [how |-> "value", text |-> c]
  ELSE IF HasBraceMatch(c)
  THEN (IF IsJson(BraceMatch(c))
        THEN [how |-> "value", text |-> BraceMatch(c)]
        ELSE [how |-> "raise", text |-> <<>>])
  ELSE [how |-> "nomatch", text |-> <<>>]

\* What the endpoint does in one call.
HttpOutcomes == {"ok", "http_error", "timeout"}

\* ------------------------------------------------------------------------
\* Result summarization
\* ------------------------------------------------------------------------
\* The value a summary mapping gives for each key; "absent" for a missing key.
SummaryOf(c) ==
  [summary            |-> DictGet(c, "summary"),
   key_findings       |-> DictGet(c, "key_findings"),
   data_quality_notes |-> DictGet(c, "data_quality_notes")]

\* The fixed fallback: the summary text "Query executed successfully" and two
\* empty lists.
FallbackSummary ==
  [summary |-> "Query executed successfully",
   key_findings |-> "empty_list", data_quality_notes |-> "empty_list"]

NoSummary ==
  [raised |-> FALSE, exc |-> "", isDict |-> FALSE, fallback |-> FALSE,
   value |-> [summary |-> "absent", key_findings |-> "absent",
              data_quality_notes |-> "absent"]]

\* summarize_results(question, sql, results) when the endpoint answers http
\* with reply text c.
summarize_results(http, c) ==
  IF http # "ok"
  THEN [NoSummary EXCEPT !.raised = TRUE, !.exc = "RequestException"]
  ELSE LET x == ExtractJson(c) IN
       IF x.how = "raise"
       THEN [NoSummary EXCEPT !.raised = TRUE, !.exc = "JSONDecodeError"]
       ELSE IF x.how = "nomatch"
       THEN [NoSummary EXCEPT !.isDict = TRUE, !.fallback = TRUE,
                              !.value = FallbackSummary]
       ELSE [NoSummary EXCEPT !.isDict = IsJsonObject(x.text),
                              !.value = SummaryOf(x.text)]

\* ------------------------------------------------------------------------
\* Schema discovery
\* ------------------------------------------------------------------------
DbTypes == {"postgresql", "mysql", "sqlite"}

\* Names a source may hold as base tables.
TableNames == {"sales", "sqlite_sequence"}

\* t.startswith("sqlite_")
IsSqliteInternal(t) == t = "sqlite_sequence"

\* A table_filter argument: None (given = FALSE) or a list of names, held as
\* the set of its entries since the code only tests membership in it.
NoFilter == [given |-> FALSE, names |-> {}]
FilterOf(names) == [given |-> TRUE, names |-> names]

\* `if table_filter:`: false for None and for the empty list.
FilterApplies(table_filter) == table_filter.given /\ table_filter.names # {}

\* [t for t in all_tables if keep(t)], for a list of table names.
RECURSIVE FilterTables(_, _, _)
FilterTables(all_tables, db_type, table_filter) ==
  IF all_tables = <<>> THEN <<>>
  ELSE LET t == Head(all_tables)
           keep == /\ ~(db_type = "sqlite" /\ IsSqliteInternal(t))
                   /\ (~FilterApplies(table_filter) \/ t \in table_filter.names)
       IN (IF keep THEN <<t>> ELSE <<>>)
          \o FilterTables(Tail(all_tables), db_type, table_filter)

\*   opened  connections opened, closed  connections closed
NoSchema ==
  [raised |-> FALSE, exc |-> "", tables |-> <<>>, opened |-> 0, closed |-> 0]

\* discover_schema(database, table_filter) on a source of dialect db_type whose
\* table listing is all_tables.
discover_schema(table_filter, db_type, all_tables, be) ==
  IF be.connect = "error"
  THEN [NoSchema EXCEPT !.raised = TRUE, !.exc = "ConnectError"]
  ELSE IF be.execute = "error"
  THEN [NoSchema EXCEPT !.raised = TRUE, !.exc = "DatabaseError",
                        !.opened = 1, !.closed = 1]
  ELSE [NoSchema EXCEPT !.tables = FilterTables(all_tables, db_type, table_filter),
                        !.opened = 1, !.closed = 1]

\* ------------------------------------------------------------------------
\* SQL generation
\* ------------------------------------------------------------------------
NoSqlResult == [raised |-> FALSE, exc |-> "", sql |-> "absent", error |-> "absent"]

\* generate_sql(question, schema) when the endpoint answers http with reply
\* text c: the sql and error members of the returned mapping ("absent" for a
\* missing key), or the exception raised.
generate_sql(http, c) ==
  IF http # "ok"
  THEN [NoSqlResult EXCEPT !.raised = TRUE, !.exc = "RequestException"]
  ELSE LET x == ExtractJson(c) IN
       IF x.how = "raise"
       THEN [NoSqlResult EXCEPT !.raised = TRUE, !.exc = "JSONDecodeError"]
       ELSE IF x.how = "nomatch"
       THEN [NoSqlResult EXCEPT !.raised = TRUE, !.exc = "ValueError"]
       ELSE IF ~IsJsonObject(x.text)
       THEN [NoSqlResult EXCEPT !.raised = TRUE, !.exc = "AttributeError"]
       ELSE [NoSqlResult EXCEPT !.sql = DictGet(x.text, "sql"),
                                !.error = DictGet(x.text, "error")]

\* ------------------------------------------------------------------------
\* XML export and storage
\* ------------------------------------------------------------------------
\* A value Python treats as true in `if summary.get(key):`.
Truthy(v) == v \notin {"absent", "null", "empty_list", ""}

NoXml ==
  [raised |-> FALSE, exc |-> "", made |-> FALSE, metadata |-> <<>>, rows |-> 0,
   doc |-> <<>>, sql |-> <<>>]

\* The element names results_to_xml writes, as texts.
Tag ==
  [queryResult |-> <<"q","u","e","r","y","R","e","s","u","l","t">>,
   metadata |-> <<"m","e","t","a","d","a","t","a">>,
   query |-> <<"q","u","e","r","y">>,
   sql |-> <<"s","q","l">>,
   generatedAt |-> <<"g","e","n","e","r","a","t","e","d","A","t">>,
   rowCount |-> <<"r","o","w","C","o","u","n","t">>,
   executionTimeMs |-> <<"e","x","e","c","u","t","i","o","n","T","i","m","e","M","s">>,
   summary |-> <<"s","u","m","m","a","r","y">>,
   keyFindings |-> <<"k","e","y","F","i","n","d","i","n","g","s">>,
   finding |-> <<"f","i","n","d","i","n","g">>,
   dataQualityNotes |-> <<"d","a","t","a","Q","u","a","l","i","t","y","N","o","t","e","s">>,
   note |-> <<"n","o","t","e">>,
   schema |-> <<"s","c","h","e","m","a">>,
   column |-> <<"c","o","l","u","m","n">>,
   rows |-> <<"r","o","w","s">>,
   row |-> <<"r","o","w">>]

\* The serialized document is a sequence of pieces: a start tag `<tag>`, an
\* end tag `</tag>`, an empty-element tag `<tag />`, or character data. The
\* start and empty-element tags of column elements carry the name attribute.
Open(tag)  == [k |-> "open",  tag |-> tag, name |-> <<>>, text |-> ""]
Close(tag) == [k |-> "close", tag |-> tag, name |-> <<>>, text |-> ""]
Empty(tag) == [k |-> "empty", tag |-> tag, name |-> <<>>, text |-> ""]
Text(text) == [k |-> "text",  tag |-> <<>>, name |-> <<>>, text |-> text]

\* ET.tostring of an element with the given text and no children: an element
\* whose text is empty or None is written as an empty-element tag.
Elem(tag, text) ==
  IF text = "" THEN <<Empty(tag)>> ELSE <<Open(tag), Text(text), Close(tag)>>

\* ET.tostring of an element without text whose children serialize to
\* children.
Wrap(tag, children) ==
  IF children = <<>> THEN <<Empty(tag)>>
  ELSE <<Open(tag)>> \o children \o <<Close(tag)>>

RECURSIVE Concat(_)
Concat(seqs) == IF seqs = <<>> THEN <<>> ELSE Head(seqs) \o Concat(Tail(seqs))

\* The value None of a result cell.
PyNone == "<None>"

\* `val = row.get(col, ""); if val is None: val = ""; str(val)`
CellText(row, col) ==
  LET val == IF col \in DOMAIN row THEN row[col] ELSE ""
  IN IF val = PyNone THEN "" ELSE val

\* Variant: a cell without content is left out of the row.
CellElem_OmitEmpty(col, text) == IF text = "" THEN <<>> ELSE Elem(col, text)

\* `ET.SubElement(row_elem, col).text = str(val)`: the column name is the
\* element name.
CellElem(col, text) == Elem(col, text)

\* One child of the metadata element.
MetaElem(m) ==
  IF m = "keyFindings" THEN Wrap(Tag.keyFindings, Elem(Tag.finding, "t"))
  ELSE IF m = "dataQualityNotes" THEN Wrap(Tag.dataQualityNotes, Elem(Tag.note, "t"))
  ELSE Elem(Tag[m], "t")

\* The schema element: one column element per column, with its name.
SchemaDoc(columns) ==
  Wrap(Tag.schema,
       [i \in 1..Len(columns) |-> [Empty(Tag.column) EXCEPT !.name = columns[i]]])

\* One row element.
RowDoc(columns, row) ==
  Wrap(Tag.row,
       Concat([i \in 1..Len(columns) |-> CellElem(columns[i], CellText(row, columns[i]))]))

\* The rows element.
RowsDoc(columns, rows) ==
  Wrap(Tag.rows, Concat([i \in 1..Len(rows) |-> RowDoc(columns, rows[i])]))

\* results_to_xml(question, sql, results, summary): the children of the
\* metadata element in document order, the number of row elements, the
\* serialized document, and the text written into the sql element.
results_to_xml(sql, res, summ) ==
  IF ~summ.isDict
  THEN [NoXml EXCEPT !.raised = TRUE, !.exc = "AttributeError"]
  ELSE LET metadata ==
             <<"query", "sql", "generatedAt", "rowCount", "executionTimeMs">>
             \o (IF Truthy(summ.value.summary) THEN <<"summary">> ELSE <<>>)
             \o (IF Truthy(summ.value.key_findings) THEN <<"keyFindings">> ELSE <<>>)
             \o (IF Truthy(summ.value.data_quality_notes)
                 THEN <<"dataQualityNotes">> ELSE <<>>)
       IN [NoXml EXCEPT
             !.made = TRUE,
             !.sql = sql,
             !.metadata = metadata,
             !.rows = Len(res.rows),
             !.doc =
               Wrap(Tag.queryResult,
                    Wrap(Tag.metadata,
                         Concat([i \in 1..Len(metadata) |-> MetaElem(metadata[i])]))
                    \o SchemaDoc(res.columns)
                    \o RowsDoc(res.columns, res.rows))]

\* Variant: the Google Drive variant names the file by its id only.
StorageKeys_GdriveIdOnly(storage_type) ==
  IF storage_type = "gdrive"
  THEN {"path", "storage_type", "file_id"}
  ELSE {"path", "url", "storage_type"}

\* The keys of the mapping the variant for storage_type returns.
StorageKeys(storage_type) ==
  IF storage_type = "gdrive"
  THEN {"path", "url", "storage_type", "file_id"}
  ELSE {"path", "url", "storage_type"}

\* Values of STORAGE_TYPE: the five variants and one that is none of them.
StorageTypes == {"local", "gdrive", "s3", "azure", "gcs", "ftp"}

\* save_to_storage(xml_content, filename) under STORAGE_TYPE storage_type,
\* when the backend's write succeeds (ok) or fails.
\*   writes  the number of write requests made to the backend
\*   keys    the keys of the mapping returned
save_to_storage(storage_type, ok) ==
  IF storage_type = "ftp"
  THEN [raised |-> TRUE, exc |-> "ValueError", attempted |-> FALSE,
        storage_type |-> storage_type, writes |-> 0, keys |-> {}]
  ELSE IF ~ok
  THEN [raised |-> TRUE, exc |-> "StorageError", attempted |-> TRUE,
        storage_type |-> storage_type, writes |-> 1, keys |-> {}]
  ELSE [raised |-> FALSE, exc |-> "", attempted |-> TRUE,
        storage_type |-> storage_type, writes |-> 1,
        keys |-> StorageKeys(storage_type)]

\* ------------------------------------------------------------------------
\* File naming and the local storage variant
\* ------------------------------------------------------------------------
\* The length of the question prefix that goes into the file name.
QUESTION_PREFIX_LEN == 30

\* question[:30]
QuestionPrefix(question) ==
  SubSeq(question, 1,
         IF Len(question) < QUESTION_PREFIX_LEN THEN Len(question)
         ELSE QUESTION_PREFIX_LEN)

\* re.sub(r'[^a-zA-Z0-9_]', '_', text)
SafeName(text) ==
  [i \in 1..Len(text) |->
     IF \/ \E k \in 1..26 : text[i] \in {LowerLetters[k], UpperLetters[k]}
        \/ text[i] \in {"0","1","2","3","4","5","6","7","8","9","_"}
     THEN text[i] ELSE "_"]

\* datetime.now().strftime("%Y%m%d_%H%M%S") at clock tick t: the second the
\* tick falls in, the part of a second dropped.
Timestamp(t) == IntToStr(t \div SubSecondTicks)

\* The file name query() makes up when no storage_path is given.
AutoFilename(question, t) ==
  SafeName(QuestionPrefix(question)) \o <<"_">> \o Timestamp(t) \o <<".","x","m","l">>

\* `if storage_path: filename = f"{storage_path}.xml" else: ...`, with the
\* empty text for a storage_path of None.
Filename(storage_path, question, t) ==
  IF storage_path # <<>> THEN storage_path \o <<".","x","m","l">>
  ELSE AutoFilename(question, t)

\* filepath.write_text(xml_content): the directory after the write, a file of
\* that name replaced.
WriteText(dir, filename, xml) ==
  {f \in dir : f.name # filename} \cup {[name |-> filename, doc |-> xml]}

\* ------------------------------------------------------------------------
\* The decisions query() takes between its stages
\* ------------------------------------------------------------------------
\* Variant: only the sql member is tested.
GenerationFails_SqlOnly(sql_result, text) ==
  \/ ~Truthy(sql_result.sql)
  \/ text = <<>>

\* `if sql_result.get("error") or not sql_result.get("sql")`, with text the
\* value of a sql member that is a string.
GenerationFails(sql_result, text) ==
  \/ Truthy(sql_result.error)
  \/ ~Truthy(sql_result.sql)
  \/ text = <<>>

\* Variant: the summarizer is called before the executor.
StageAfter_SummarizeFirst(p) ==
  CASE p = "discover"  -> "generate"
    [] p = "generate"  -> "validate"
    [] p = "validate"  -> "summarize"
    [] p = "summarize" -> "execute"
    [] p = "execute"   -> "export"
    [] p = "export"    -> "store"

\* The call that follows the call at position p in the body of query(),
\* reached when the call at p returned and query() did not end there.
StageAfter(p) ==
  CASE p = "discover"  -> "generate"
    [] p = "generate"  -> "validate"
    [] p = "validate"  -> "execute"
    [] p = "execute"   -> "summarize"
    [] p = "summarize" -> "export"
    [] p = "export"    -> "store"

\* Variant: an empty table list is tolerated.
NoTables_Never(s) == FALSE

\* `if not schema["tables"]`
NoTables(s) == s.tables = <<>>

\* Variant: a request to the endpoint is sent a second time.
Post_Twice(calls, purpose) == calls \o <<purpose, purpose>>

\* `resp = requests.post(f"{LLM_API_URL}/chat/completions", ...)`: one request
\* per call of generate_sql or summarize_results, recorded in order.
Post(calls, purpose) == Append(calls, purpose)

\* Variant: validation never ends the run.
ValidationFails_Never(v) == FALSE

\* `if not validation["valid"]`
ValidationFails(v) == ~v.valid

\* Variant: an exception of execute_query is swallowed.
ExecutionFails_Never(r) == FALSE

\* An exception raised by execute_query leaves query().
ExecutionFails(r) == r.raised

\* The keys of storage_result that query() subscripts to build its payload.
ReadByQuery == {"path", "url", "storage_type"}

\* What query() hands back: a returned mapping (its keys, its success flag
\* and, in the success payload, the value of its sql key) or a raised
\* exception.
NoReturn ==
  [kind |-> "none", success |-> FALSE, keys |-> {}, exc |-> "", sql |-> <<>>]
Raise(exc) ==
  [kind |-> "raise", success |-> FALSE, keys |-> {}, exc |-> exc, sql |-> <<>>]
GenerationFailure ==
  [kind |-> "return", success |-> FALSE,
   keys |-> {"success", "error", "reasoning", "confidence"}, exc |-> "",
   sql |-> <<>>]
\* Variant: the validation failure is told by the absence of the result fields.
ValidationFailure_NoFlag ==
  [kind |-> "return", success |-> FALSE, keys |-> {"error", "sql"}, exc |-> "",
   sql |-> <<>>]

ValidationFailure ==
  [kind |-> "return", success |-> FALSE, keys |-> {"success", "error", "sql"},
   exc |-> "", sql |-> <<>>]
Success ==
  [kind |-> "return", success |-> TRUE,
   keys |-> {"success", "sql", "row_count", "columns", "xml_path", "xml_url",
             "storage_type", "summary", "key_findings", "data_quality_notes",
             "confidence", "reasoning", "execution_time_seconds"},
   exc |-> "", sql |-> <<>>]

\* The success payload of a run whose local sql is text: `"sql": sql`.
SuccessPayload(text) == [Success EXCEPT !.sql = text]

\* ------------------------------------------------------------------------
\* Inputs
\* ------------------------------------------------------------------------
\* Fragments SQL texts are built from: SELECT heads in two letter cases,
\* white space, a semicolon, LIMIT clauses in two letter cases, an identifier
\* suffix that contains "limit", an identifier that contains "create"
\* (created_at), and denylisted keywords in some letter case.
SqlTokens ==
  { <<"S","E","L","E","C","T"," ","a">>,
    <<"s","e","L","e","c","t"," ","a">>,
    <<" ">>,
    <<";">>,
    <<" ","L","I","M","I","T"," ","5">>,
    <<" ","l","i","m","I","t"," ","5">>,
    <<"_","l","i","m","i","t">>,
    <<" ","i","n","s","e","r","t">>,
    <<" ","U","p","d","a","t","e">>,
    <<" ","D","E","L","E","T","E">>,
    <<" ","d","r","o","p">>,
    <<" ","c","r","e","a","t","e","d","_","a","t">>,
    <<" ","A","l","t","e","r">>,
    <<" ","t","r","u","n","c","a","t","e">>,
    <<" ","G","r","a","n","t">>,
    <<" ","r","e","v","o","k","e">>,
    <<" ","e","x","e","c">>,
    <<" ","E","x","e","c","u","t","e">>,
    <<" ","s","p","_">>,
    <<" ","X","p","_">>,
    <<" ","s","c","r","i","p","t">> }

RECURSIVE TextsOfLen(_)
TextsOfLen(n) ==
  IF n = 0 THEN {<<>>}
  ELSE {t \o tok : t \in TextsOfLen(n - 1), tok \in SqlTokens}

\* Every SQL text the model feeds to the validator and the executor.
SqlTexts == UNION {TextsOfLen(n) : n \in 0..MaxTokens}

\* ------------------------------------------------------------------------
\* State
\* ------------------------------------------------------------------------
VARIABLES
  pc,          \* position of the running call
  sql,         \* the sql argument / local of the running call
  max_rows,    \* the max_rows argument of execute_query
  validation,  \* the value validate_sql returned
  backend,     \* what the database did in the call of execute_query
  results,     \* the outcome of execute_query
  http,        \* what the endpoint did in the call of summarize_results
  content,     \* the reply text summarize_results received
  summary,     \* the outcome of summarize_results
  schema,      \* the outcome of discover_schema
  sql_result,  \* the outcome of generate_sql
  xml_content, \* the outcome of results_to_xml
  storage_result, \* the outcome of save_to_storage
  ret,         \* what query() handed back
  llmCalls,    \* the requests posted to the language-model endpoint, in order
  stages,      \* the stages query() has entered, in order
  failed,      \* the stage whose error ended the run, "" if none
  table_filter, \* the table_filter argument of a direct call of discover_schema
  source,      \* the dialect and the table listing of the source of that call
  clock,       \* wall-clock time, in ticks
  files,       \* the local result directory: file name -> the document in it
  inv          \* the concurrent invocations of query(), by invocation number

callVars == <<pc, sql, max_rows, validation, backend, results, http, content, summary>>
queryVars ==
  <<schema, sql_result, xml_content, storage_result, ret, llmCalls, stages, failed>>
auxVars == <<table_filter, source, clock, files, inv>>
vars == <<callVars, queryVars, auxVars>>

NoBackend == [connect |-> "ok", execute |-> "ok", fetched |-> 0]
NoStorage ==
  [raised |-> FALSE, exc |-> "", attempted |-> FALSE, storage_type |-> "",
   writes |-> 0, keys |-> {}]

\* The locals of query() before it runs (and throughout a direct call of one
\* of the stage functions).
QueryIdle ==
  /\ schema = NoSchema
  /\ sql_result = NoSqlResult
  /\ xml_content = NoXml
  /\ storage_result = NoStorage
  /\ ret = NoReturn
  /\ llmCalls = <<>>
  /\ stages = <<>>
  /\ failed = ""

NoSource == [db_type |-> "sqlite", all_tables |-> <<>>]

\* The variables of the direct call of discover_schema and of the concurrent
\* invocations, while neither is modelled.
AuxIdle ==
  /\ table_filter = NoFilter
  /\ source = NoSource
  /\ clock = 0
  /\ files = {}
  /\ inv = <<>>

NoValidation == [valid |-> FALSE, errors |-> <<>>]
NoResults ==
  [raised |-> FALSE, exc |-> "", sent |-> <<>>, opened |-> 0, closed |-> 0,
   columns |-> <<>>,
        rows |-> <<>>, row_count |-> 0]

\* ------------------------------------------------------------------------
\* A direct call of validate_sql
\* ------------------------------------------------------------------------
InitValidate ==
  /\ pc = "validate_sql"
  /\ sql \in SqlTexts
  /\ max_rows = DEFAULT_MAX_ROWS
  /\ validation = NoValidation
  /\ backend = NoBackend
  /\ results = NoResults
  /\ http = "ok"
  /\ content = <<>>
  /\ summary = NoSummary
  /\ schema \in {[NoSchema EXCEPT !.tables = tables] :
                   tables \in {<<>>, <<"sales">>, <<"sales", "sqlite_sequence">>}}
  /\ sql_result = NoSqlResult
  /\ xml_content = NoXml
  /\ storage_result = NoStorage
  /\ ret = NoReturn
  /\ llmCalls = <<>>
  /\ stages = <<>>
  /\ failed = ""
  /\ AuxIdle

ValidateSqlCall ==
  /\ UNCHANGED auxVars
  /\ pc = "validate_sql"
  /\ validation' = validate_sql(sql, schema)
  /\ pc' = "validated"
  /\ UNCHANGED <<sql, max_rows, backend, results, http, content, summary, queryVars>>

NextValidate == ValidateSqlCall

SpecValidate == InitValidate /\ [][NextValidate]_vars

\* ------------------------------------------------------------------------
\* A direct call of execute_query
\* ------------------------------------------------------------------------
InitExecute ==
  /\ pc = "execute_query"
  /\ sql \in SqlTexts
  /\ max_rows \in 0..MaxRowsArg
  /\ validation = NoValidation
  /\ backend = NoBackend
  /\ results = NoResults
  /\ http = "ok"
  /\ content = <<>>
  /\ summary = NoSummary
  /\ QueryIdle
  /\ AuxIdle

ExecuteQueryCall ==
  /\ UNCHANGED auxVars
  /\ pc = "execute_query"
  /\ \E be \in Backends :
       /\ backend' = be
       /\ results' = execute_query(sql, max_rows, be)
  /\ pc' = "executed"
  /\ UNCHANGED <<sql, max_rows, validation, http, content, summary, queryVars>>

NextExecute == ExecuteQueryCall

SpecExecute == InitExecute /\ [][NextExecute]_vars

\* ------------------------------------------------------------------------
\* A direct call of summarize_results
\* ------------------------------------------------------------------------
InitSummarize ==
  /\ pc = "summarize_results"
  /\ sql = <<>>
  /\ max_rows = DEFAULT_MAX_ROWS
  /\ validation = NoValidation
  /\ backend = NoBackend
  /\ results = NoResults
  /\ http \in HttpOutcomes
  /\ content \in (IF http = "ok" THEN Replies ELSE {<<>>})
  /\ summary = NoSummary
  /\ QueryIdle
  /\ AuxIdle

SummarizeResultsCall ==
  /\ UNCHANGED auxVars
  /\ pc = "summarize_results"
  /\ summary' = summarize_results(http, content)
  /\ pc' = "summarized"
  /\ UNCHANGED <<sql, max_rows, validation, backend, results, http, content, queryVars>>

NextSummarize == SummarizeResultsCall

SpecSummarize == InitSummarize /\ [][NextSummarize]_vars

\* ------------------------------------------------------------------------
\* A direct call of generate_sql
\* ------------------------------------------------------------------------
InitGenerate ==
  /\ pc = "generate_sql"
  /\ sql = <<>>
  /\ max_rows = DEFAULT_MAX_ROWS
  /\ validation = NoValidation
  /\ backend = NoBackend
  /\ results = NoResults
  /\ http \in HttpOutcomes
  /\ content \in (IF http = "ok" THEN Replies \cup TwoMemberReplies ELSE {<<>>})
  /\ summary = NoSummary
  /\ QueryIdle
  /\ AuxIdle

GenerateSqlCall ==
  /\ pc = "generate_sql"
  /\ sql_result' = generate_sql(http, content)
  /\ pc' = "generated"
  /\ UNCHANGED <<sql, max_rows, validation, backend, results, http, content, summary,
                 schema, xml_content, storage_result, ret, llmCalls, stages,
                 failed, auxVars>>

NextGenerate == GenerateSqlCall

SpecGenerate == InitGenerate /\ [][NextGenerate]_vars

\* ------------------------------------------------------------------------
\* A direct call of discover_schema
\* ------------------------------------------------------------------------
\* Table listings a source may report: every list of distinct table names.
TableLists ==
  {<<>>} \cup {<<t>> : t \in TableNames}
         \cup {<<t, u>> : <<t, u>> \in {p \in TableNames \X TableNames : p[1] # p[2]}}

\* table_filter arguments: None, the empty list, an existing table, a table
\* the source does not have, both.
TableFilters == {NoFilter} \cup {FilterOf(names) : names \in SUBSET {"sales", "ghost"}}

InitDiscover ==
  /\ pc = "discover_schema"
  /\ sql = <<>>
  /\ max_rows = DEFAULT_MAX_ROWS
  /\ validation = NoValidation
  /\ backend \in Backends
  /\ results = NoResults
  /\ http = "ok"
  /\ content = <<>>
  /\ summary = NoSummary
  /\ QueryIdle
  /\ table_filter \in TableFilters
  /\ source \in [db_type : DbTypes, all_tables : TableLists]
  /\ clock = 0
  /\ files = {}
  /\ inv = <<>>

DiscoverSchemaCall ==
  /\ pc = "discover_schema"
  /\ schema' = discover_schema(table_filter, source.db_type, source.all_tables, backend)
  /\ pc' = "discovered"
  /\ UNCHANGED <<sql, max_rows, validation, backend, results, http, content, summary,
                 sql_result, xml_content, storage_result, ret, llmCalls, stages,
                 failed, auxVars>>

NextDiscover == DiscoverSchemaCall

SpecDiscover == InitDiscover /\ [][NextDiscover]_vars

\* ------------------------------------------------------------------------
\* A direct call of results_to_xml
\* ------------------------------------------------------------------------
\* Column names of a result: a plain identifier (one that is also the name
\* of the row element) and the name SQLite and MySQL give the column of
\* SELECT COUNT(*).
ColumnNames == { <<"r","o","w">>, <<"C","O","U","N","T","(","*",")">> }

\* Column lists of up to MaxCols names, repeated names included.
ColumnLists == UNION {[1..n -> ColumnNames] : n \in 0..MaxCols}

\* The row mappings over a column list: every column is absent, None or a
\* text.
RowDicts(columns) ==
  UNION {[D -> {PyNone, "v"}] : D \in SUBSET {columns[j] : j \in 1..Len(columns)}}

\* The results mappings execute_query can hand over: row_count is the number
\* of rows.
QueryResults ==
  UNION {{[NoResults EXCEPT !.columns = columns, !.rows = rows,
                            !.row_count = Len(rows)] :
            rows \in UNION {[1..n -> RowDicts(columns)] : n \in 0..MaxXmlRows}} :
         columns \in ColumnLists}

\* Summaries summarize_results can hand over: the fallback, the mapping of
\* an empty object, and a mapping with a summary text only.
Summaries ==
  {summarize_results("ok", c) :
     c \in {<<TXT>>, <<LB, RB>>, <<LB, Member("summary", "text"), RB>>}}

InitXml ==
  /\ pc = "results_to_xml"
  /\ sql = <<>>
  /\ max_rows = DEFAULT_MAX_ROWS
  /\ validation = NoValidation
  /\ backend = NoBackend
  /\ results \in QueryResults
  /\ http = "ok"
  /\ content = <<>>
  /\ summary \in Summaries
  /\ QueryIdle
  /\ AuxIdle

ResultsToXmlCall ==
  /\ pc = "results_to_xml"
  /\ xml_content' = results_to_xml(sql, results, summary)
  /\ pc' = "exported"
  /\ UNCHANGED <<sql, max_rows, validation, backend, results, http, content, summary,
                 schema, sql_result, storage_result, ret, llmCalls, stages,
                 failed, auxVars>>

NextXml == ResultsToXmlCall

SpecXml == InitXml /\ [][NextXml]_vars

\* ------------------------------------------------------------------------
\* query(): one pipeline invocation, one action per stage
\* ------------------------------------------------------------------------

\* Every outcome generate_sql and summarize_results can have over the replies
\* of the model.
GenerateOutcomes ==
  {generate_sql("ok", c) : c \in Replies \cup TwoMemberReplies}
    \cup {generate_sql(h, <<>>) : h \in HttpOutcomes \ {"ok"}}

SummarizeOutcomes ==
  {summarize_results("ok", c) : c \in Replies \cup TwoMemberReplies}
    \cup {summarize_results(h, <<>>) : h \in HttpOutcomes \ {"ok"}}

Init ==
  /\ pc = "discover"
  /\ sql = <<>>
  /\ max_rows = DEFAULT_MAX_ROWS
  /\ validation = NoValidation
  /\ backend = NoBackend
  /\ results = NoResults
  /\ http = "ok"
  /\ content = <<>>
  /\ summary = NoSummary
  /\ QueryIdle
  /\ AuxIdle

\* Step 1: discover_schema, then `if not schema["tables"]: raise ValueError`.
Discover ==
  /\ UNCHANGED auxVars
  /\ pc = "discover"
  /\ \E tf \in TableFilters, db_type \in DbTypes,
        all_tables \in TableLists, be \in Backends :
       schema' = discover_schema(tf, db_type, all_tables, be)
  /\ stages' = Append(stages, "schema")
  /\ IF schema'.raised
     THEN /\ ret' = Raise(schema'.exc)
          /\ failed' = "schema"
          /\ pc' = "done"
     ELSE IF NoTables(schema')
     THEN /\ ret' = Raise("ValueError")
          /\ failed' = "schema"
          /\ pc' = "done"
     ELSE /\ pc' = StageAfter(pc)
          /\ UNCHANGED <<ret, failed>>
  /\ UNCHANGED <<sql, max_rows, validation, backend, results, http, content,
                 summary, sql_result, xml_content, storage_result, llmCalls>>

\* Step 2: generate_sql, then the test of its error and sql members.
Generate ==
  /\ UNCHANGED auxVars
  /\ pc = "generate"
  /\ \E o \in GenerateOutcomes, text \in SqlTexts :
       /\ sql_result' = o
       /\ IF o.raised
          THEN /\ ret' = Raise(o.exc)
               /\ failed' = "generation"
               /\ pc' = "done"
               /\ sql' = sql
          ELSE IF GenerationFails(o, IF o.sql = "text" THEN text ELSE <<>>)
          THEN /\ ret' = GenerationFailure
               /\ failed' = "generation"
               /\ pc' = "done"
               /\ sql' = sql
          ELSE /\ sql' = text
               /\ pc' = StageAfter(pc)
               /\ UNCHANGED <<ret, failed>>
  /\ llmCalls' = Post(llmCalls, "generate")
  /\ stages' = Append(stages, "generation")
  /\ UNCHANGED <<max_rows, validation, backend, results, http, content, summary,
                 schema, xml_content, storage_result>>

\* Step 3: validate_sql, then `if not validation["valid"]: return {...}`.
Validate ==
  /\ UNCHANGED auxVars
  /\ pc = "validate"
  /\ validation' = validate_sql(sql, schema)
  /\ stages' = Append(stages, "validation")
  /\ IF ValidationFails(validation')
     THEN /\ ret' = ValidationFailure
          /\ failed' = "validation"
          /\ pc' = "done"
     ELSE /\ pc' = StageAfter(pc)
          /\ UNCHANGED <<ret, failed>>
  /\ UNCHANGED <<sql, max_rows, backend, results, http, content, summary,
                 schema, sql_result, xml_content, storage_result, llmCalls>>

\* Step 4: execute_query(sql, database), max_rows left at its default.
Execute ==
  /\ UNCHANGED auxVars
  /\ pc = "execute"
  /\ \E be \in Backends :
       /\ backend' = be
       /\ results' = execute_query(sql, max_rows, be)
  /\ stages' = Append(stages, "execution")
  /\ IF ExecutionFails(results')
     THEN /\ ret' = Raise(results'.exc)
          /\ failed' = "execution"
          /\ pc' = "done"
     ELSE /\ pc' = StageAfter(pc)
          /\ UNCHANGED <<ret, failed>>
  /\ UNCHANGED <<sql, max_rows, validation, http, content, summary,
                 schema, sql_result, xml_content, storage_result, llmCalls>>

\* Step 5: summarize_results.
Summarize ==
  /\ UNCHANGED auxVars
  /\ pc = "summarize"
  /\ \E o \in SummarizeOutcomes : summary' = o
  /\ llmCalls' = Post(llmCalls, "summarize")
  /\ stages' = Append(stages, "summarization")
  /\ IF summary'.raised
     THEN /\ ret' = Raise(summary'.exc)
          /\ failed' = "summarization"
          /\ pc' = "done"
     ELSE /\ pc' = StageAfter(pc)
          /\ UNCHANGED <<ret, failed>>
  /\ UNCHANGED <<sql, max_rows, validation, backend, results, http, content,
                 schema, sql_result, xml_content, storage_result>>

\* Step 6: results_to_xml.
Export ==
  /\ UNCHANGED auxVars
  /\ pc = "export"
  /\ xml_content' = results_to_xml(sql, results, summary)
  /\ stages' = Append(stages, "export")
  /\ IF xml_content'.raised
     THEN /\ ret' = Raise(xml_content'.exc)
          /\ failed' = "export"
          /\ pc' = "done"
     ELSE /\ pc' = StageAfter(pc)
          /\ UNCHANGED <<ret, failed>>
  /\ UNCHANGED <<sql, max_rows, validation, backend, results, http, content,
                 summary, schema, sql_result, storage_result, llmCalls>>

\* save_to_storage and the success payload.
Store ==
  /\ UNCHANGED auxVars
  /\ pc = "store"
  /\ \E storage_type \in StorageTypes, ok \in BOOLEAN :
       storage_result' = save_to_storage(storage_type, ok)
  /\ stages' = Append(stages, "storage")
  /\ IF storage_result'.raised
     THEN /\ ret' = Raise(storage_result'.exc)
          /\ failed' = "storage"
     ELSE IF ~(ReadByQuery \subseteq storage_result'.keys)
     THEN /\ ret' = Raise("KeyError")
          /\ failed' = "storage"
     ELSE /\ ret' = SuccessPayload(sql)
          /\ failed' = failed
  /\ pc' = "done"
  /\ UNCHANGED <<sql, max_rows, validation, backend, results, http, content,
                 summary, schema, sql_result, xml_content, llmCalls>>

\* ------------------------------------------------------------------------
\* Two concurrent invocations of query() storing to the local file system
\* ------------------------------------------------------------------------
Invocations == {1, 2}

\* Questions: two that differ in a character the file name replaces, and a
\* third.
Questions == { <<"a","?">>, <<"a"," ">>, <<"b">> }

\* storage_path arguments: None and a path.
StoragePaths == { <<>>, <<"o","u","t">> }

InitConcurrent ==
  /\ pc = "concurrent"
  /\ sql = <<>>
  /\ max_rows = DEFAULT_MAX_ROWS
  /\ validation = NoValidation
  /\ backend = NoBackend
  /\ results = NoResults
  /\ http = "ok"
  /\ content = <<>>
  /\ summary = NoSummary
  /\ QueryIdle
  /\ table_filter = NoFilter
  /\ source = NoSource
  /\ clock = 0
  /\ files = {}
  /\ inv \in [Invocations ->
                [pc : {"export"}, question : Questions, storage_path : StoragePaths,
                 filename : {<<>>}, xml_path : {<<>>}]]

\* Invocation i has its document and makes the file name (lines 871-877).
NameFile(i) ==
  /\ inv[i].pc = "export"
  /\ inv' = [inv EXCEPT
               ![i].filename = Filename(inv[i].storage_path, inv[i].question, clock),
               ![i].pc = "store"]
  /\ UNCHANGED <<callVars, queryVars, table_filter, source, clock, files>>

\* Invocation i writes its document (the document of invocation i is i) and
\* returns the success payload with the path of the file.
SaveLocal(i) ==
  /\ inv[i].pc = "store"
  /\ files' = WriteText(files, inv[i].filename, i)
  /\ inv' = [inv EXCEPT ![i].xml_path = inv[i].filename, ![i].pc = "done"]
  /\ UNCHANGED <<callVars, queryVars, table_filter, source, clock>>

\* Time passes.
Tick ==
  /\ clock < MaxClock
  /\ clock' = clock + 1
  /\ UNCHANGED <<callVars, queryVars, table_filter, source, files, inv>>

NextConcurrent ==
  \/ \E i \in Invocations : NameFile(i)
  \/ \E i \in Invocations : SaveLocal(i)
  \/ Tick

SpecConcurrent == InitConcurrent /\ [][NextConcurrent]_vars

Next ==
  \/ Discover
  \/ Generate
  \/ Validate
  \/ Execute
  \/ Summarize
  \/ Export
  \/ Store

Spec == Init /\ [][Next]_vars

\* ------------------------------------------------------------------------
\* Properties of validate_sql (SpecValidate)
\* ------------------------------------------------------------------------
LowerOf ==
  [c \in {UpperLetters[i] : i \in 1..26} |->
     LowerLetters[CHOOSE i \in 1..26 : UpperLetters[i] = c]]

LowerChar(c) == IF c \in DOMAIN LowerOf THEN LowerOf[c] ELSE c

\* word (given in upper case) occurs in s at position i in some letter case.
OccursAt(s, word, i) ==
  /\ i >= 1
  /\ i + Len(word) - 1 <= Len(s)
  /\ \A j \in 1..Len(word) : s[i + j - 1] \in {word[j], LowerChar(word[j])}

OccursAnyCase(s, word) == \E i \in 1..Len(s) : OccursAt(s, word, i)

InErrors(e) == \E i \in 1..Len(validation.errors) : validation.errors[i] = e

\* The keywords the specification lists, with the stored-procedure prefixes.
ListedKeywords ==
  { <<"I","N","S","E","R","T">>, <<"U","P","D","A","T","E">>,
    <<"D","E","L","E","T","E">>, <<"D","R","O","P">>,
    <<"C","R","E","A","T","E">>, <<"A","L","T","E","R">>,
    <<"T","R","U","N","C","A","T","E">>, <<"G","R","A","N","T">>,
    <<"R","E","V","O","K","E">>, <<"E","X","E","C">>,
    <<"E","X","E","C","U","T","E">>, <<"S","P","_">>, <<"X","P","_">> }

\* C1: whenever a denylisted keyword occurs anywhere in the SQL text, in any
\* letter case, validate_sql returns valid = false and the errors list has
\* the entry naming that keyword.
C1_DenylistedKeywordRejected ==
  pc = "validated" =>
    \A kw \in ListedKeywords :
      OccursAnyCase(sql, kw) =>
        /\ validation.valid = FALSE
        /\ InErrors(ErrDisallowed(kw))

\* A text holding "drop" in a letter case other than upper case was validated
\* and rejected.
C1_Witness ==
  /\ pc = "validated"
  /\ OccursAnyCase(sql, <<"D","R","O","P">>)
  /\ ~Contains(sql, <<"D","R","O","P">>)
  /\ validation.valid = FALSE
  /\ InErrors(ErrDisallowed(<<"D","R","O","P">>))

\* The text begins with SELECT, in some letter case, after its leading white
\* space.
BeginsWithSelect(s) ==
  \E i \in 0..Len(s) :
    /\ \A j \in 1..i : s[j] \in Whitespace
    /\ OccursAt(s, kwSELECT, i + 1)

\* C3: a SQL text that does not begin with SELECT once trimmed (compared
\* case-insensitively) gets the not-SELECT error and valid = false.
C3_NonSelectRejected ==
  (pc = "validated" /\ ~BeginsWithSelect(sql)) =>
    /\ validation.valid = FALSE
    /\ InErrors(ErrNotSelect)

\* A text with a LIMIT clause and no denylisted keyword was rejected for the
\* sole reason that it does not begin with SELECT.
C3_Witness ==
  /\ pc = "validated"
  /\ ~BeginsWithSelect(sql)
  /\ sql # <<>>
  /\ validation = [valid |-> FALSE, errors |-> <<ErrNotSelect>>]

\* ------------------------------------------------------------------------
\* Properties of execute_query (SpecExecute)
\* ------------------------------------------------------------------------
\* C4: whenever execute_query returns, row_count is the number of rows
\* returned and is at most max_rows, whatever fetchall delivered.
C4_RowCountBounded ==
  (pc = "executed" /\ ~results.raised) =>
    /\ results.row_count = Len(results.rows)
    /\ results.row_count <= max_rows

\* The backend delivered more rows than max_rows and the call returned
\* exactly max_rows of them.
C4_Witness ==
  /\ pc = "executed"
  /\ ~results.raised
  /\ backend.fetched > max_rows
  /\ max_rows > 0
  /\ results.row_count = max_rows

IsIdentChar(c) ==
  \/ \E i \in 1..26 : c \in {LowerLetters[i], UpperLetters[i]}
  \/ c \in {"0","1","2","3","4","5","6","7","8","9","_"}

\* LIMIT stands at position i of s as a word of its own.
LimitWordAt(s, i) ==
  /\ OccursAt(s, kwLIMIT, i)
  /\ (i = 1 \/ ~IsIdentChar(s[i - 1]))
  /\ (i + 5 > Len(s) \/ ~IsIdentChar(s[i + 5]))

LimitClauses(s) == {i \in 1..Len(s) : LimitWordAt(s, i)}

EndsWith(s, suffix) ==
  /\ Len(s) >= Len(suffix)
  /\ SubSeq(s, Len(s) - Len(suffix) + 1, Len(s)) = suffix

\* C6: a statement without a limiting clause reaches the database with
\* exactly one limiting clause, " LIMIT <max_rows>", at its end; a statement
\* that has a limiting clause reaches the database unchanged.
C6_LimitInjectedOnce ==
  (pc = "executed" /\ results.sent # <<>>) =>
    LET stmt == results.sent[1] IN
      IF LimitClauses(sql) = {}
      THEN /\ EndsWith(stmt, <<" ">> \o kwLIMIT \o <<" ">> \o IntToStr(max_rows))
           /\ Cardinality(LimitClauses(stmt)) = 1
      ELSE stmt = sql

\* ------------------------------------------------------------------------
\* Properties of summarize_results (SpecSummarize)
\* ------------------------------------------------------------------------
\* The reply can be parsed neither directly nor through the brace match.
Unparseable(c) ==
  /\ ~IsJson(c)
  /\ ~(HasBraceMatch(c) /\ IsJson(BraceMatch(c)))

\* C7: when the reply cannot be parsed as a structured object, directly or
\* through the brace extraction, summarize_results returns the fixed fallback
\* and raises nothing.
C7_UnparseableGivesFallback ==
  (pc = "summarized" /\ http = "ok" /\ Unparseable(content)) =>
    /\ ~summary.raised
    /\ summary.value = FallbackSummary

\* ------------------------------------------------------------------------
\* Properties of query() (Spec)
\* ------------------------------------------------------------------------
Entered(stage) == \E i \in 1..Len(stages) : stages[i] = stage

\* Some entry of the denylist occurs in s, in any letter case.
HasDenylisted(s) ==
  \E k \in 1..Len(DISALLOWED_KEYWORDS) : OccursAnyCase(s, DISALLOWED_KEYWORDS[k])

\* C2: the executor is entered, and a statement handed to the database by it,
\* only after validate_sql returned valid = true for the generated SQL (which
\* then begins with SELECT and holds no listed keyword); a run whose
\* validation returned valid = false ends in a returned failure payload with
\* nothing sent by the executor.
C2_ExecuteOnlyAfterValid ==
  /\ (Entered("execution") \/ results.sent # <<>>) =>
        /\ Entered("validation")
        /\ validation.valid
        /\ BeginsWithSelect(sql)
        /\ \A kw \in ListedKeywords : ~OccursAnyCase(sql, kw)
  /\ (Entered("validation") /\ ~validation.valid) =>
        /\ pc = "done"
        /\ ret.kind = "return"
        /\ ret.success = FALSE
        /\ ~Entered("execution")
        /\ results.sent = <<>>

\* A run whose generated SQL begins with SELECT and then names DROP ended at
\* validation with a failure payload and nothing sent to the database.
C2_Witness ==
  /\ pc = "done"
  /\ BeginsWithSelect(sql)
  /\ OccursAnyCase(sql, <<"D","R","O","P">>)
  /\ Entered("validation")
  /\ ~validation.valid
  /\ ret = ValidationFailure
  /\ results.sent = <<>>

\* C5: a generated statement that begins with SELECT, holds no denylisted
\* keyword and has no limiting clause gets the missing-LIMIT error recorded
\* but the run is not ended by validation: it goes on to the executor.
C5_MissingLimitNotFatal ==
  (/\ Entered("validation")
   /\ BeginsWithSelect(sql)
   /\ ~HasDenylisted(sql)
   /\ LimitClauses(sql) = {}) =>
     /\ InErrors(ErrNoLimit)
     /\ failed # "validation"
     /\ pc # "done" \/ Entered("execution")

\* C8: a run in which discovery, generation, validation and execution
\* succeeded, and whose storage write did not fail, ends with success = true,
\* whatever the summarizer's endpoint answered.
C8_SummarizerNeverFatal ==
  (/\ pc = "done"
   /\ Entered("execution")
   /\ ~results.raised
   /\ failed # "storage") =>
     /\ ret.kind = "return"
     /\ ret.success = TRUE

\* C9: a run ended by an error in schema discovery, generation, validation,
\* execution or storage returns a failure payload that carries the stage and
\* the error message, and raises nothing.
C9_FailurePayloadNamesStage ==
  (pc = "done"
   /\ failed \in {"schema", "generation", "validation", "execution", "storage"}) =>
     /\ ret.kind = "return"
     /\ ret.success = FALSE
     /\ {"stage", "error"} \subseteq ret.keys

\* C10: an XML document exists, or a storage write was attempted, only in
\* runs in which schema discovery, generation, validation and execution all
\* completed without error.
C10_NoExportAfterFatalError ==
  /\ (xml_content # NoXml \/ storage_result # NoStorage
      \/ Entered("export") \/ Entered("storage")) =>
        /\ Entered("schema") /\ ~schema.raised /\ schema.tables # <<>>
        /\ Entered("generation") /\ ~sql_result.raised
        /\ Entered("validation") /\ validation.valid
        /\ Entered("execution") /\ ~results.raised
        /\ failed \notin {"schema", "generation", "validation", "execution"}
  /\ failed \in {"schema", "generation", "validation", "execution"} =>
        /\ pc = "done"
        /\ xml_content = NoXml
        /\ storage_result = NoStorage

\* A run ended by an error of the executor, with no document and no write.
C10_Witness ==
  /\ pc = "done"
  /\ failed = "execution"
  /\ results.raised
  /\ results.sent # <<>>
  /\ xml_content = NoXml
  /\ storage_result = NoStorage

\* C11: every payload query() returns has the success key, and success is
\* true only in runs in which the executor ran without error and the storage
\* write completed; a failure payload carries success = false.
C11_ExplicitSuccessFlag ==
  ret.kind = "return" =>
    /\ "success" \in ret.keys
    /\ ret.success =>
          /\ Entered("execution")
          /\ results.sent # <<>>
          /\ ~results.raised
          /\ Entered("storage")
          /\ storage_result.attempted
          /\ ~storage_result.raised
    /\ failed # "" => ~ret.success

\* A run returned the success payload after the executor and the storage
\* write both completed.
C11_Witness ==
  /\ pc = "done"
  /\ ret.kind = "return"
  /\ ret.success
  /\ "success" \in ret.keys
  /\ Entered("execution")
  /\ storage_result.attempted
  /\ ~storage_result.raised

\* C12: when schema discovery returns zero tables after filtering, the run
\* ends there with a schema-discovery failure: no request has been posted to
\* the language-model endpoint, and neither the executor nor the storage sink
\* is invoked.
C12_NoTablesAbortsBeforeModel ==
  (Entered("schema") /\ ~schema.raised /\ schema.tables = <<>>) =>
    /\ pc = "done"
    /\ failed = "schema"
    /\ ret.kind = "raise"
    /\ llmCalls = <<>>
    /\ ~Entered("generation")
    /\ ~Entered("execution")
    /\ results.sent = <<>>
    /\ ~Entered("storage")
    /\ storage_result = NoStorage

\* Discovery returned without error, with no table left, and the run ended.
C12_Witness ==
  /\ pc = "done"
  /\ stages = <<"schema">>
  /\ ~schema.raised
  /\ schema.tables = <<>>
  /\ failed = "schema"
  /\ llmCalls = <<>>

\* C13: the validator (and so the executor) is reached only when the
\* generation result has a sql that is neither null nor empty and no error; a
\* generation result whose sql is null or missing, or whose error is
\* populated, also next to a populated sql, ends the run in a returned failure
\* payload with the validator, the executor and the storage sink not invoked.
C13_OnlyActionableSqlProceeds ==
  /\ Entered("validation") =>
        /\ ~sql_result.raised
        /\ sql_result.sql = "text"
        /\ sql # <<>>
        /\ ~Truthy(sql_result.error)
  /\ (/\ Entered("generation")
      /\ ~sql_result.raised
      /\ (sql_result.sql \in {"null", "absent"} \/ sql_result.error = "text")) =>
        /\ pc = "done"
        /\ ret = GenerationFailure
        /\ failed = "generation"
        /\ ~Entered("validation")
        /\ validation = NoValidation
        /\ ~Entered("execution")
        /\ results.sent = <<>>
        /\ ~Entered("storage")
        /\ storage_result = NoStorage

\* The model answered with both a sql and an error, and the run ended at
\* generation with the failure payload.
C13_Witness ==
  /\ pc = "done"
  /\ ~sql_result.raised
  /\ sql_result.sql = "text"
  /\ sql_result.error = "text"
  /\ ret = GenerationFailure
  /\ ~Entered("validation")
  /\ results.sent = <<>>

\* The order in which query() calls its stages.
StageOrder ==
  <<"schema", "generation", "validation", "execution", "summarization",
    "export", "storage">>

\* C14: the stages of a run start in the fixed order schema discovery, SQL
\* generation, validation, execution, summarization, XML export, storage: the
\* stages entered so far are a prefix of that order (so none is entered
\* twice or after a later one), and a stage is entered only when the stage
\* before it has returned.
C14_StagesInFixedOrder ==
  /\ Len(stages) <= Len(StageOrder)
  /\ \A i \in 1..Len(stages) : stages[i] = StageOrder[i]
  /\ Entered("generation") => ~schema.raised /\ schema.tables # <<>>
  /\ Entered("validation") => ~sql_result.raised /\ sql_result.sql = "text"
  /\ Entered("execution") => validation.valid
  /\ Entered("summarization") => ~results.raised /\ results.sent # <<>>
  /\ Entered("export") => ~summary.raised
  /\ Entered("storage") => xml_content.made /\ ~xml_content.raised

\* A run went through all seven stages.
C14_Witness ==
  /\ pc = "done"
  /\ stages = StageOrder
  /\ ret = SuccessPayload(sql)

\* The number of entries of seq equal to x.
Count(seq, x) == Cardinality({i \in 1..Len(seq) : seq[i] = x})

\* C15: no stage is retried: within one run the generated statement is sent
\* to the database at most once, the generation request and the
\* summarization request are each posted at most once, and the storage write
\* is made at most once, also in runs ended by the failure of that call.
C15_NoStageRetried ==
  /\ Len(results.sent) <= 1
  /\ results.opened <= 1
  /\ Count(llmCalls, "generate") <= 1
  /\ Count(llmCalls, "summarize") <= 1
  /\ storage_result.writes <= 1
  /\ \A i \in 1..Len(StageOrder) : Count(stages, StageOrder[i]) <= 1

\* The database rejected the statement: it was sent once and the run ended.
C15_Witness ==
  /\ pc = "done"
  /\ failed = "execution"
  /\ results.raised
  /\ Len(results.sent) = 1
  /\ llmCalls = <<"generate">>

\* The five storage variants.
StorageVariants == {"local", "gdrive", "s3", "azure", "gcs"}

\* C19 as stated: every storage variant returns the fields path, url and the
\* backend tag and nothing else.
C19_SameShapeNothingElse ==
  (Entered("storage") /\ ~storage_result.raised) =>
    storage_result.keys = {"path", "url", "storage_type"}

\* C19, amended: every storage variant returns at least the fields path, url
\* and storage_type, the Google Drive variant returns the field file_id
\* besides and no other variant returns anything besides; query() reads
\* path, url and storage_type only, so it builds the same success payload for
\* every backend.
C19_SameFieldsRead ==
  (Entered("storage") /\ ~storage_result.raised) =>
    /\ storage_result.storage_type \in StorageVariants
    /\ ReadByQuery \subseteq storage_result.keys
    /\ storage_result.keys \ ReadByQuery =
         (IF storage_result.storage_type = "gdrive" THEN {"file_id"} ELSE {})
    /\ pc = "done"
    /\ ret = SuccessPayload(sql)

\* A run stored its document on Google Drive: the result carries a file id
\* and the run returned the success payload.
C19_Witness ==
  /\ pc = "done"
  /\ storage_result.storage_type = "gdrive"
  /\ ~storage_result.raised
  /\ "file_id" \in storage_result.keys
  /\ ret = SuccessPayload(sql)

\* ------------------------------------------------------------------------
\* Properties of discover_schema (SpecDiscover)
\* ------------------------------------------------------------------------
\* The base tables of the source in its enumeration order: the listing
\* without SQLite's internal tables.
RECURSIVE BaseTables(_)
BaseTables(src) ==
  IF src.all_tables = <<>> THEN <<>>
  ELSE (IF src.db_type = "sqlite" /\ IsSqliteInternal(Head(src.all_tables))
        THEN <<>> ELSE <<Head(src.all_tables)>>)
       \o BaseTables([src EXCEPT !.all_tables = Tail(src.all_tables)])

\* The entries of seq that are in names, in the order of seq.
RECURSIVE Restrict(_, _)
Restrict(seq, names) ==
  IF seq = <<>> THEN <<>>
  ELSE (IF Head(seq) \in names THEN <<Head(seq)>> ELSE <<>>)
       \o Restrict(Tail(seq), names)

\* C18: when a table_filter is supplied, discover_schema returns exactly the
\* base tables of the source whose names are in the filter, in the source's
\* enumeration order, and raises nothing for filter names the source does
\* not have.
C18_FilterRestrictsTables ==
  (pc = "discovered" /\ table_filter.given
   /\ backend.connect = "ok" /\ backend.execute = "ok") =>
    /\ ~schema.raised
    /\ schema.tables = Restrict(BaseTables(source), table_filter.names)

\* ------------------------------------------------------------------------
\* Properties of results_to_xml (SpecXml)
\* ------------------------------------------------------------------------
\* The characters an XML name may start with, and may go on with.
NameStartChars ==
  {LowerLetters[i] : i \in 1..26} \cup {UpperLetters[i] : i \in 1..26} \cup {"_", ":"}
NameChars ==
  NameStartChars \cup {"0","1","2","3","4","5","6","7","8","9","-","."}

IsXmlName(s) ==
  /\ Len(s) >= 1
  /\ s[1] \in NameStartChars
  /\ \A i \in 2..Len(s) : s[i] \in NameChars

RowPath == <<Tag.queryResult, Tag.rows, Tag.row>>

\* One pass over the pieces of a document from piece i on, with the stack of
\* open elements: collects the name attributes of the column elements under
\* queryResult/schema, and for every row element under queryResult/rows the
\* list of its children (tag and content); ok tells that the tags nest.
RECURSIVE WalkFrom(_, _, _, _)
WalkFrom(doc, i, stack, st) ==
  IF i > Len(doc) THEN [st EXCEPT !.ok = st.ok /\ stack = <<>>]
  ELSE
    LET tok == doc[i]
        inSchema == stack = <<Tag.queryResult, Tag.schema>>
        inRows == stack = <<Tag.queryResult, Tag.rows>>
        inRow == stack = RowPath
        inCell == Len(stack) = 4 /\ SubSeq(stack, 1, 3) = RowPath
        st1 ==
          IF tok.k \in {"open", "empty"}
          THEN (IF inSchema /\ tok.tag = Tag.column
                THEN [st EXCEPT !.columns = Append(@, tok.name)]
                ELSE IF inRow
                THEN [st EXCEPT !.cur = Append(@, [tag |-> tok.tag, text |-> ""])]
                ELSE IF inRows /\ tok.tag = Tag.row /\ tok.k = "empty"
                THEN [st EXCEPT !.rows = Append(@, <<>>)]
                ELSE st)
          ELSE IF tok.k = "text"
          THEN (IF inCell
                THEN [st EXCEPT !.cur[Len(st.cur)].text = tok.text]
                ELSE st)
          ELSE IF stack = <<>> \/ stack[Len(stack)] # tok.tag
          THEN [st EXCEPT !.ok = FALSE]
          ELSE IF inRow
          THEN [st EXCEPT !.rows = Append(@, st.cur), !.cur = <<>>]
          ELSE st
        stack1 ==
          IF tok.k = "open" THEN Append(stack, tok.tag)
          ELSE IF tok.k = "close" /\ stack # <<>>
          THEN SubSeq(stack, 1, Len(stack) - 1)
          ELSE stack
    IN WalkFrom(doc, i + 1, stack1, st1)

Walk(doc) ==
  WalkFrom(doc, 1, <<>>, [ok |-> TRUE, columns |-> <<>>, rows |-> <<>>, cur |-> <<>>])

\* Parsing the document: an XML parser rejects it when a tag is not an XML
\* name or the tags do not nest; otherwise it gives the column names of the
\* schema section and the number of row elements of the rows section.
ParseXml(doc) ==
  LET w == Walk(doc)
      named == \A i \in 1..Len(doc) : doc[i].k = "text" \/ IsXmlName(doc[i].tag)
  IN IF doc # <<>> /\ w.ok /\ named
     THEN [ok |-> TRUE, columns |-> w.columns, rows |-> Len(w.rows)]
     ELSE [ok |-> FALSE, columns |-> <<>>, rows |-> 0]

\* C16: round trip: parsing the document results_to_xml returns gives back
\* the column names of the result, in order, in the schema section and
\* exactly row_count row elements in the rows section.
C16_XmlRoundTrip ==
  (pc = "exported" /\ ~xml_content.raised) =>
    LET p == ParseXml(xml_content.doc) IN
      /\ p.ok
      /\ p.columns = results.columns
      /\ p.rows = results.row_count

\* C17: in the document results_to_xml returns every row element has exactly
\* one child per column of the result, in column order, named after the
\* column; the child of a column whose value is None, or which the row
\* mapping lacks, has empty content and is not left out.
C17_OneChildPerColumn ==
  (pc = "exported" /\ ~xml_content.raised) =>
    LET w == Walk(xml_content.doc) IN
      /\ w.ok
      /\ Len(w.rows) = Len(results.rows)
      /\ \A i \in 1..Len(results.rows) :
            /\ Len(w.rows[i]) = Len(results.columns)
            /\ \A j \in 1..Len(results.columns) :
                  LET col == results.columns[j]
                      row == results.rows[i]
                  IN /\ w.rows[i][j].tag = col
                     /\ w.rows[i][j].text =
                          (IF col \notin DOMAIN row \/ row[col] = PyNone
                           THEN "" ELSE row[col])

\* A result of two columns was exported whose first row has None in one
\* column and lacks the other, and whose second row has a text: the first
\* row element has two children without content.
C17_Witness ==
  /\ pc = "exported"
  /\ ~xml_content.raised
  /\ results.columns = << <<"r","o","w">>, <<"C","O","U","N","T","(","*",")">> >>
  /\ Len(results.rows) = 2
  /\ results.rows[1] = [c \in {<<"r","o","w">>} |-> PyNone]
  /\ <<"r","o","w">> \in DOMAIN results.rows[2]
  /\ results.rows[2][<<"r","o","w">>] = "v"
  /\ Walk(xml_content.doc).rows[1] =
       << [tag |-> <<"r","o","w">>, text |-> ""],
          [tag |-> <<"C","O","U","N","T","(","*",")">>, text |-> ""] >>

\* ------------------------------------------------------------------------
\* Properties of concurrent invocations (SpecConcurrent)
\* ------------------------------------------------------------------------
\* The document the directory holds under a path ({} when there is none).
Stored(path) == {f.doc : f \in {g \in files : g.name = path}}

\* C20: under every interleaving of two invocations neither of which gives a
\* storage path, once an invocation has returned, the file its payload names
\* holds that invocation's own document, as it would had the invocation run
\* alone: it is never overwritten by the other invocation.
C20_InvocationsIsolated ==
  (pc = "concurrent" /\ \A j \in Invocations : inv[j].storage_path = <<>>) =>
    \A i \in Invocations :
      inv[i].pc = "done" => Stored(inv[i].xml_path) = {i}

\* ------------------------------------------------------------------------
\* Further properties of validate_sql (SpecValidate)
\* ------------------------------------------------------------------------
\* C21: for every input, validate_sql returns valid = true if and only if
\* the errors list it returns is empty.
C21_ValidIffNoErrors ==
  pc = "validated" => (validation.valid <=> validation.errors = <<>>)

\* A text was found valid with no error, after texts with errors were found
\* invalid: here the valid one.
C21_Witness ==
  /\ pc = "validated"
  /\ validation.valid
  /\ validation.errors = <<>>
  /\ sql # <<>>

\* ------------------------------------------------------------------------
\* Further properties of summarize_results (SpecSummarize)
\* ------------------------------------------------------------------------
\* The values of the model that are a string, and those that are a list.
StringValues == {"text", "Query executed successfully"}
ListValues == {"list", "empty_list"}

\* C22: for every reply of the model, the value summarize_results returns is
\* a mapping with a string summary, a list key_findings and a list
\* data_quality_notes, whether it comes from the reply or from the fallback.
C22_SummaryFullyPopulated ==
  (pc = "summarized" /\ http = "ok" /\ ~summary.raised) =>
    /\ summary.isDict
    /\ summary.value.summary \in StringValues
    /\ summary.value.key_findings \in ListValues
    /\ summary.value.data_quality_notes \in ListValues

\* C23: validate_sql accumulates: for every SQL text the errors list holds
\* one entry for each denylisted keyword that occurs in it, the not-SELECT
\* entry if the text does not begin with SELECT, and the missing-LIMIT entry
\* if LIMIT does not occur in it, all in the one result and nothing else.
C23_ViolationsAccumulated ==
  pc = "validated" =>
    /\ \A k \in 1..Len(DISALLOWED_KEYWORDS) :
          Count(validation.errors, ErrDisallowed(DISALLOWED_KEYWORDS[k]))
            = (IF OccursAnyCase(sql, DISALLOWED_KEYWORDS[k]) THEN 1 ELSE 0)
    /\ Count(validation.errors, ErrNotSelect)
          = (IF BeginsWithSelect(sql) THEN 0 ELSE 1)
    /\ Count(validation.errors, ErrNoLimit)
          = (IF OccursAnyCase(sql, kwLIMIT) THEN 0 ELSE 1)
    /\ \A i \in 1..Len(validation.errors) :
          \/ validation.errors[i] \in {ErrNotSelect, ErrNoLimit}
          \/ \E k \in 1..Len(DISALLOWED_KEYWORDS) :
               validation.errors[i] = ErrDisallowed(DISALLOWED_KEYWORDS[k])

\* A text that names DROP, does not begin with SELECT and has no LIMIT got
\* all three entries in one result.
C23_Witness ==
  /\ pc = "validated"
  /\ validation.errors =
       <<ErrDisallowed(<<"D","R","O","P">>), ErrNotSelect, ErrNoLimit>>

\* s in lower case, and s with the case of every letter swapped.
Lower(s) == [i \in 1..Len(s) |-> LowerChar(s[i])]
SwapCase(s) ==
  [i \in 1..Len(s) |-> IF s[i] \in DOMAIN LowerOf THEN LowerOf[s[i]] ELSE UpperChar(s[i])]

\* Schemas a caller may pass to validate_sql.
SchemaArgs ==
  {[NoSchema EXCEPT !.tables = tables] :
     tables \in {<<>>, <<"sales">>, <<"sqlite_sequence">>, <<"sales", "sqlite_sequence">>}}

\* The result validate_sql returned equals what it returns for the same
\* text again, for the same text with any other schema, and for the text in
\* upper case, in lower case and with the case of every letter swapped.
SameForSchemaAndCase ==
  pc = "validated" =>
    /\ validate_sql(sql, schema) = validation
    /\ \A s \in SchemaArgs : validate_sql(sql, s) = validation
    /\ \A t \in {Upper(sql), Lower(sql), SwapCase(sql)} :
          validate_sql(t, schema) = validation

\* C24: validate_sql is pure and case-insensitive: its result depends only
\* on the SQL text, not on the schema argument, a second call with the same
\* text gives an equal result, texts that differ only in letter case give
\* equal results, and the call leaves the schema argument as it was.
C24_PureAndCaseInsensitive ==
  /\ []SameForSchemaAndCase
  /\ [][schema' = schema /\ sql' = sql]_vars

\* A text in mixed case that names a denylisted keyword was validated against
\* a schema without tables.
C24_Witness ==
  /\ pc = "validated"
  /\ schema.tables = <<>>
  /\ sql \notin {Upper(sql), Lower(sql)}
  /\ HasDenylisted(sql)
  /\ ~validation.valid

\* ------------------------------------------------------------------------
\* Properties of generate_sql (SpecGenerate)
\* ------------------------------------------------------------------------
\* The spans of c that are a balanced brace-delimited substring json.loads
\* accepts as an object.
ObjectSpans(c) ==
  {p \in (1..Len(c)) \X (1..Len(c)) : p[1] < p[2] /\ IsJsonObject(SubSeq(c, p[1], p[2]))}

\* The first of them.
FirstObject(c) ==
  LET p == CHOOSE q \in ObjectSpans(c) : \A r \in ObjectSpans(c) : q[1] <= r[1]
  IN SubSeq(c, p[1], p[2])

\* C25: when the reply is not directly parseable, generate_sql recovers the
\* first balanced brace-delimited object of the reply whenever the reply
\* holds one, also when further braces follow it, and raises a parse error
\* only if the reply holds none.
C25_FirstObjectRecovered ==
  (pc = "generated" /\ http = "ok" /\ ~IsJson(content)) =>
    IF ObjectSpans(content) # {}
    THEN /\ ~sql_result.raised
         /\ sql_result.sql = DictGet(FirstObject(content), "sql")
         /\ sql_result.error = DictGet(FirstObject(content), "error")
    ELSE sql_result.raised

\* ------------------------------------------------------------------------
\* Further properties of results_to_xml (SpecXml)
\* ------------------------------------------------------------------------
\* The tags of the children of the root element, in document order.
RECURSIVE TopLevelFrom(_, _, _)
TopLevelFrom(doc, i, depth) ==
  IF i > Len(doc) THEN <<>>
  ELSE LET tok == doc[i] IN
       (IF depth = 1 /\ tok.k \in {"open", "empty"} THEN <<tok.tag>> ELSE <<>>)
       \o TopLevelFrom(doc, i + 1,
                       IF tok.k = "open" THEN depth + 1
                       ELSE IF tok.k = "close" THEN depth - 1 ELSE depth)

\* C26: the exported document has the same shape for every input: the
\* metadata section holds the question, sql, generation timestamp, row
\* count, execution time, summary, findings and data-quality-notes entries,
\* the last three also for an empty summary and empty lists, and is followed
\* by the schema section and then the rows section.
C26_FixedShape ==
  (pc = "exported" /\ ~xml_content.raised) =>
    /\ xml_content.metadata =
         <<"query", "sql", "generatedAt", "rowCount", "executionTimeMs",
           "summary", "keyFindings", "dataQualityNotes">>
    /\ TopLevelFrom(xml_content.doc, 1, 0) = <<Tag.metadata, Tag.schema, Tag.rows>>

\* C27: validate_sql returns valid = true exactly when the text begins with
\* SELECT once trimmed, LIMIT occurs in it, and none of the 14 denylist
\* strings occurs in it, each compared without regard to letter case and as
\* a substring; so a SELECT with a column created_at is rejected and one
\* whose only LIMIT is inside an identifier is accepted.
C27_ValidExactlyWhen ==
  pc = "validated" =>
    /\ Len(DISALLOWED_KEYWORDS) = 14
    /\ validation.valid <=>
          /\ BeginsWithSelect(sql)
          /\ OccursAnyCase(sql, kwLIMIT)
          /\ ~HasDenylisted(sql)
    /\ OccursAnyCase(sql, <<"C","R","E","A","T","E","D","_","A","T">>) =>
          ~validation.valid

\* A SELECT whose only LIMIT is inside the identifier a_limit was accepted.
C27_Witness ==
  /\ pc = "validated"
  /\ validation.valid
  /\ BeginsWithSelect(sql)
  /\ LimitClauses(sql) = {}
  /\ OccursAnyCase(sql, kwLIMIT)

\* ------------------------------------------------------------------------
\* Further properties of query() (Spec)
\* ------------------------------------------------------------------------
\* C28: in every run that reaches execution, the statement sent to the
\* database is character for character the text validate_sql approved, and
\* the same text is written to the XML metadata and to the success payload;
\* as an approved text holds LIMIT, the executor appends no LIMIT to it.
C28_SqlUnchangedAfterValidation ==
  /\ results.sent # <<>> =>
        /\ validation.valid
        /\ OccursAnyCase(sql, kwLIMIT)
        /\ results.sent = <<sql>>
  /\ xml_content.made => xml_content.sql = sql /\ results.sent = <<sql>>
  /\ ret.success => ret.sql = sql /\ results.sent = <<sql>>

\* A run succeeded: the approved text went to the database, to the document
\* and to the payload.
C28_Witness ==
  /\ pc = "done"
  /\ ret.success
  /\ validation.valid
  /\ sql # <<>>
  /\ results.sent = <<sql>>
  /\ xml_content.sql = sql
  /\ ret.sql = sql

\* C29: every connection discover_schema or execute_query opens is closed
\* when the function is left, also when the cursor raised; at every point
\* between the stages of a run, and after it, no connection the run opened
\* is still open.
C29_ConnectionsClosed ==
  /\ schema.closed = schema.opened
  /\ results.closed = results.opened
  /\ Entered("schema") /\ schema.exc # "ConnectError" => schema.opened = 1
  /\ results.sent # <<>> => results.opened = 1

\* The cursor raised in execute_query after discover_schema had succeeded:
\* both connections were opened and both are closed.
C29_Witness ==
  /\ pc = "done"
  /\ failed = "execution"
  /\ results.exc = "DatabaseError"
  /\ results.opened = 1
  /\ results.closed = 1
  /\ schema.opened = 1
  /\ schema.closed = 1

====
